---- MODULE Spec2Model ----
(***************************************************************************)
(* Model of server.js: the MQTT -> SQLite -> socket.io ingestion pipeline. *)
(* Strings are sequences of one-character strings, so that toLowerCase,    *)
(* includes, startsWith, split and the voltage regular expression are      *)
(* computed character by character as the JavaScript does.                 *)
(***************************************************************************)
EXTENDS Integers, Sequences, FiniteSets, TLC

\* ---------------------------------------------------------------- bounds
MaxMsgs == 2
MaxSockets == 2
MaxClears == 1
MaxAttach == 2
MaxInbox == 4

\* ------------------------------------------------------- string literals
Disconnected == <<"D", "i", "s", "c", "o", "n", "n", "e", "c", "t", "e", "d">>
ONLINE == <<"O", "N", "L", "I", "N", "E">>
OFFLINE == <<"O", "F", "F", "L", "I", "N", "E">>
HeartbeatMarker == <<"m", "a", "i", "n", " ", "n", "o", "d", "e", ":">>
ConfirmedMarker == <<"c", "o", "n", "f", "i", "r", "m", "e", "d">>
FsaePrefix == <<"f", "s", "a", "e", "/">>
EqPrefix == <<"h", "o", "m", "e", "/", "e", "a", "r", "t", "h", "q", "u", "a", "k", "e", "/">>
StatusTopic == <<"h", "o", "m", "e", "/", "e", "a", "r", "t", "h", "q", "u", "a", "k", "e", "/", "s", "t", "a", "t", "u", "s">>
FsaeFilter == <<"f", "s", "a", "e", "/", "#">>
EqFilter == <<"h", "o", "m", "e", "/", "e", "a", "r", "t", "h", "q", "u", "a", "k", "e", "/", "#">>

\* --------------------------------------------------- JavaScript helpers
Digits == {"0", "1", "2", "3", "4", "5", "6", "7", "8", "9"}

LowerChar(c) ==
    CASE c = "A" -> "a"
            [] c = "B" -> "b"
            [] c = "C" -> "c"
            [] c = "D" -> "d"
            [] c = "E" -> "e"
            [] c = "F" -> "f"
            [] c = "G" -> "g"
            [] c = "H" -> "h"
            [] c = "I" -> "i"
            [] c = "J" -> "j"
            [] c = "K" -> "k"
            [] c = "L" -> "l"
            [] c = "M" -> "m"
            [] c = "N" -> "n"
            [] c = "O" -> "o"
            [] c = "P" -> "p"
            [] c = "Q" -> "q"
            [] c = "R" -> "r"
            [] c = "S" -> "s"
            [] c = "T" -> "t"
            [] c = "U" -> "u"
            [] c = "V" -> "v"
            [] c = "W" -> "w"
            [] c = "X" -> "x"
            [] c = "Y" -> "y"
            [] c = "Z" -> "z"
            [] OTHER -> c

ToLowerCase(s) == [i \in 1..Len(s) |-> LowerChar(s[i])]

Includes(s, sub) ==
    \E i \in 1..(Len(s) - Len(sub) + 1) : SubSeq(s, i, i + Len(sub) - 1) = sub

StartsWith(s, prefix) ==
    Len(s) >= Len(prefix) /\ SubSeq(s, 1, Len(prefix)) = prefix

\* topic.split('/').pop(): the text after the last '/', the whole string if none
SplitPop(s) ==
    LET slashes == {i \in 1..Len(s) : s[i] = "/"}
        last == IF slashes = {} THEN 0 ELSE CHOOSE i \in slashes : \A j \in slashes : j <= i
    IN  SubSeq(s, last + 1, Len(s))

\* end of the maximal run of digits starting at position i (i - 1 if none)
RECURSIVE DigitRunEnd(_, _)
DigitRunEnd(s, i) ==
    IF i <= Len(s) /\ s[i] \in Digits THEN DigitRunEnd(s, i + 1) ELSE i - 1

\* mutant: the pattern without its left anchor, /(\d+\.\d+)[Vv](?:,|$)/
GroupEndAtUnanchored(s, d) ==
    LET e1 == DigitRunEnd(s, d)
        e2 == DigitRunEnd(s, e1 + 2)
    IN  IF /\ e1 >= d
           /\ e1 + 1 <= Len(s) /\ s[e1 + 1] = "."
           /\ e2 >= e1 + 2
           /\ e2 + 1 <= Len(s) /\ s[e2 + 1] \in {"V", "v"}
           /\ (e2 + 1 = Len(s) \/ s[e2 + 2] = ",")
        THEN e2 ELSE 0

\* /(?:^|,)(\d+\.\d+)[Vv](?:,|$)/ tried with the captured group starting at d:
\* the end of the group when the pattern matches there, 0 when it does not
GroupEndAt(s, d) ==
    LET e1 == DigitRunEnd(s, d)
        e2 == DigitRunEnd(s, e1 + 2)
    IN  IF /\ (d = 1 \/ s[d - 1] = ",")
           /\ e1 >= d
           /\ e1 + 1 <= Len(s) /\ s[e1 + 1] = "."
           /\ e2 >= e1 + 2
           /\ e2 + 1 <= Len(s) /\ s[e2 + 1] \in {"V", "v"}
           /\ (e2 + 1 = Len(s) \/ s[e2 + 2] = ",")
        THEN e2 ELSE 0

\* value.match(...): <<>> for null, otherwise <<captured group 1>> of the
\* leftmost match
VoltageMatch(s) ==
    LET starts == {d \in 1..Len(s) : GroupEndAt(s, d) > 0}
    IN  IF starts = {} THEN <<>>
        ELSE LET d == CHOOSE x \in starts : \A y \in starts : x <= y
             IN  <<SubSeq(s, d, GroupEndAt(s, d))>>

IsHeartbeat(value) == Includes(ToLowerCase(value), HeartbeatMarker)

IsStatusMsg(value) ==
    value = ONLINE \/ value = OFFLINE \/ Includes(ToLowerCase(value), ConfirmedMarker)

\* ------------------------------------------------------------ the inputs
\* topics the broker delivers under the two subscriptions of line 65
GenericTopic == <<"f", "s", "a", "e", "/", "a">>
BareTopic == <<"f", "s", "a", "e">>
NodeTopic == <<"h", "o", "m", "e", "/", "e", "a", "r", "t", "h", "q", "u", "a", "k", "e", "/", "n", "1">>

LowerOnline == <<"o", "n", "l", "i", "n", "e">>
Heartbeat == <<"M", "a", "i", "n", " ", "N", "o", "d", "e", ":", " ", "1", ".", "5", "V">>
Reading == <<"1", ".", "5", "V", ",", "o", "k">>

\* the inbound messages: <<topic, payload>>
Inbound ==
    { <<GenericTopic, Reading>>,
      <<GenericTopic, Heartbeat>>,
      <<BareTopic, Reading>>,
      <<NodeTopic, Reading>>,
      <<NodeTopic, ONLINE>>,
      <<NodeTopic, Heartbeat>>,
      <<StatusTopic, ONLINE>>,
      <<StatusTopic, OFFLINE>>,
      <<StatusTopic, LowerOnline>> }

\* payloads that exercise the voltage pattern and its exclusions
TwelveFourOk == <<"1", "2", ".", "4", "V", ",", "O", "K">>
StatusConfirmed == <<"s", "t", "a", "t", "u", "s", " ", "c", "o", "n", "f", "i", "r", "m", "e", "d", " ", "1", "2", ".", "4", "V">>
ConfirmedField == <<"c", "o", "n", "f", "i", "r", "m", "e", "d", ",", "1", ".", "5", "v">>
VoltagePayloads ==
    { ONLINE,
      TwelveFourOk,
      StatusConfirmed,
      ConfirmedField,
      <<"C", "O", "N", "F", "I", "R", "M", "E", "D", ",", "1", ".", "5", "V">>,
      <<"x", "1", ".", "5", "V">>,
      <<"1", ".", "5", "V", "x">>,
      <<"a", ",", "1", ".", "5", "V", ",", "2", ".", "5", "v">>,
      <<"1", ".", "5", "W", ",", "2", ".", "5", "V">>,
      <<"1", ".", "5">>,
      <<"1", ".", "V">>,
      <<".", "5", "V">>,
      <<"1", "5", "V">>,
      <<"o", "k", ",", "3", ".", "3", "v">>,
      <<"1", ".", "2", ".", "3", "V">>,
      <<",", "1", ".", "5", "V">> }

AdminKey == "secret"
\* the x-admin-key header of a request: absent, wrong, right
Keys == {"", "guess", AdminKey}

Sockets == 1..MaxSockets

\* ------------------------------------------------------------- the stores
Stmts == {"insertFsaeWeb", "insertEqWeb", "insertFsaeArchive", "insertEqArchive", "insertBatt"}

Tables == {"web.messages", "web.earthquake_logs", "archive.messages",
           "archive.earthquake_logs", "batt.battery_logs"}

DBs == {"dbWeb", "dbArchive", "dbWeb_batt"}

\* the table each prepared statement inserts into
StmtTable(stmt) ==
    CASE stmt = "insertFsaeWeb" -> "web.messages"
      [] stmt = "insertEqWeb" -> "web.earthquake_logs"
      [] stmt = "insertFsaeArchive" -> "archive.messages"
      [] stmt = "insertEqArchive" -> "archive.earthquake_logs"
      [] stmt = "insertBatt" -> "batt.battery_logs"

\* the row a statement writes from its bound parameters
MakeRow(stmt, id, args) ==
    CASE stmt \in {"insertFsaeWeb", "insertFsaeArchive"} ->
            [id |-> id, topic |-> args[1], value |-> args[2], timestamp |-> args[3]]
      [] stmt \in {"insertEqWeb", "insertEqArchive"} ->
            [id |-> id, node_id |-> args[1], magnitude |-> args[2], timestamp |-> args[3]]
      [] stmt = "insertBatt" ->
            [id |-> id, node_id |-> args[1], voltage |-> args[2],
             raw_message |-> args[3], timestamp |-> args[4]]

\* ------------------------------------------------------------ the effects
\* what a handler does to the outside, in program order
Emit(event, to, args) == [op |-> "emit", name |-> event, to |-> to, args |-> args]

Run(stmt, args) == [op |-> "run", name |-> stmt, to |-> {}, args |-> args]

Subscribe(filters) == [op |-> "subscribe", name |-> "mqttClient", to |-> {}, args |-> filters]

DbRun(db, sql, tables, cb) ==
    [op |-> "db.run", name |-> db, to |-> {}, args |-> <<sql, tables, cb>>]

Respond(code, body) == [op |-> "res", name |-> code, to |-> {}, args |-> <<body>>]

EffectsOf(effects, op, name) ==
    LET Is(e) == e.op = op /\ e.name = name IN SelectSeq(effects, Is)

VARIABLES
    alive,            \* the process is running
    brokerStatus,     \* line 53
    mainNodeStatus,   \* line 54
    connected,        \* the MQTT client has a live connection to the broker
    subscriptions,    \* topic filters the broker holds for this connection
    attached,         \* sockets socket.io currently holds
    clock,            \* number of messages handled; stands for new Date()
    stq,              \* per prepared statement, the runs not yet executed
    dbq,              \* per database, the serialized db.run calls not yet executed
    tables,           \* per table, its rows in insertion order
    sqliteSeq,        \* per table, its sqlite_sequence entry (AUTOINCREMENT)
    numClears,        \* DELETE /api/history requests so far
    handled,          \* the inbound messages handled so far
    broadcasts,       \* the mqtt_message payloads emitted so far
    lastError,        \* the failed statement run that ended the process
    step,             \* the last handler run: its name, arguments and effects
    fanout            \* history: what each observed socket was sent since it attached

vars == <<alive, brokerStatus, mainNodeStatus, connected, subscriptions, attached, clock,
          stq, dbq, tables, sqliteSeq, numClears, handled, broadcasts, lastError, step, fanout>>

\* mutant: the cache starts as if the node were already up
InitialMainNodeStatusOnline == ONLINE

\* let mainNodeStatus = "OFFLINE"
InitialMainNodeStatus == OFFLINE

\* let brokerStatus = "Disconnected"
InitialBrokerStatus == Disconnected

Step(handler, args, effects) == [handler |-> handler, args |-> args, effects |-> effects]

\* no handler of the program ran in the last step
NoHandler == Step("none", <<>>, <<>>)

\* the program's own state once the module has loaded
Listening ==
    /\ alive = TRUE
    /\ brokerStatus = InitialBrokerStatus
    /\ mainNodeStatus = InitialMainNodeStatus
    /\ connected = FALSE
    /\ subscriptions = {}
    /\ attached = {}
    /\ clock = 0
    /\ stq = [s \in Stmts |-> <<>>]
    /\ dbq = [d \in DBs |-> <<>>]
    /\ tables = [t \in Tables |-> <<>>]
    /\ sqliteSeq = [t \in Tables |-> 0]
    /\ numClears = 0
    /\ handled = <<>>
    /\ broadcasts = {}
    /\ lastError = <<>>
    /\ step = Step("listen", <<>>, <<>>)

\* the history of the sockets in 'watched', empty at the start
Fanout(watched) ==
    [ watched |-> watched,
      attaches |-> [s \in Sockets |-> 0],
      inbox |-> [s \in Sockets |-> <<>>] ]

Init == Listening /\ fanout = Fanout({})

\* the same start with every socket's deliveries recorded
InitFanout == Listening /\ fanout = Fanout(Sockets)

\* --------------------------------------------------------------- helpers
\* MQTT matching of a topic against a filter ending in the multi-level
\* wildcard: 'a/#' matches 'a' and everything below it
TopicMatches(filter, topic) ==
    LET parent == SubSeq(filter, 1, Len(filter) - 2)
    IN  topic = parent \/ StartsWith(topic, parent \o <<"/">>)

Delivered(topic) == \E f \in subscriptions : TopicMatches(f, topic)

ArgsOf(effects, op, name) ==
    LET hits == EffectsOf(effects, op, name) IN [i \in 1..Len(hits) |-> hits[i].args]

\* the statement queues after the run calls among the effects are issued
Dispatch(queues, effects) ==
    [s \in Stmts |-> queues[s] \o ArgsOf(effects, "run", s)]

\* the database queues after the db.run calls among the effects are issued
DispatchDb(queues, effects) ==
    [d \in DBs |-> queues[d] \o ArgsOf(effects, "db.run", d)]

\* what the effects put on the wire to one socket, in program order
Received(effects, socket) ==
    LET ToSocket(e) == e.op \in {"emit", "socket.emit"} /\ socket \in e.to
        hits == SelectSeq(effects, ToSocket)
    IN  [i \in 1..Len(hits) |-> [op |-> hits[i].op, name |-> hits[i].name, args |-> hits[i].args]]

Cap(seq) == IF Len(seq) > MaxInbox THEN SubSeq(seq, 1, MaxInbox) ELSE seq

\* the history after a handler ran: the sockets in 'joined' attached in this
\* step and start a fresh inbox; the first MaxInbox deliveries are kept
Sent(history, effects, joined) ==
    [ watched |-> history.watched,
      attaches |-> [s \in Sockets |->
                      IF s \in joined \cap history.watched
                      THEN history.attaches[s] + 1 ELSE history.attaches[s]],
      inbox |-> [s \in Sockets |->
                   IF s \in history.watched
                   THEN Cap((IF s \in joined THEN <<>> ELSE history.inbox[s])
                            \o Received(effects, s))
                   ELSE <<>>] ]

\* the history after a socket went away
Left(history, socket) == [history EXCEPT !.inbox[socket] = <<>>]

MaxId(rows) ==
    IF rows = <<>> THEN 0
    ELSE LET ids == {rows[i].id : i \in 1..Len(rows)}
         IN  CHOOSE m \in ids : \A x \in ids : x <= m

\* INTEGER PRIMARY KEY AUTOINCREMENT: one more than the largest id the table
\* holds or sqlite_sequence remembers
NextId(rows, remembered) ==
    (IF MaxId(rows) > remembered THEN MaxId(rows) ELSE remembered) + 1

\* ------------------------------------------ mqttClient.on('connect', ...)
ConnectFilters == <<FsaeFilter, EqFilter>>

ConnectStatus == ONLINE

\* mutant: the subscriptions are not issued again on a connect
ConnectEffectsNoSubscribe(sockets) ==
    <<Emit("status_update", sockets, <<ConnectStatus>>)>>

ConnectEffects(sockets) ==
    << Subscribe(ConnectFilters),
       Emit("status_update", sockets, <<ConnectStatus>>) >>

OnConnect ==
    /\ alive /\ ~connected
    /\ LET effects == ConnectEffects(attached)
           subs == ArgsOf(effects, "subscribe", "mqttClient")
       IN  /\ connected' = TRUE
           /\ subscriptions' = UNION {{subs[i][j] : j \in 1..Len(subs[i])} : i \in 1..Len(subs)}
           /\ brokerStatus' = ConnectStatus
           /\ step' = Step("connect", <<>>, effects)
    /\ fanout' = Sent(fanout, step'.effects, {})
    /\ UNCHANGED <<alive, mainNodeStatus, attached, clock, stq, dbq, tables, sqliteSeq,
                   numClears, handled, broadcasts, lastError>>

\* the connection to the broker is lost; the program registers no handler
\* for the client's 'close' or 'offline' events
TransportClose ==
    /\ alive /\ connected
    /\ connected' = FALSE
    /\ subscriptions' = {}
    /\ step' = NoHandler
    /\ UNCHANGED <<fanout, alive, brokerStatus, mainNodeStatus, attached, clock, stq, dbq, tables,
                   sqliteSeq, numClears, handled, broadcasts, lastError>>

\* ------------------------------------------ mqttClient.on('message', ...)
\* mutant: the sentinel is honoured on every topic
IsLwtAnyTopic(topic, value) ==
    value = ONLINE \/ value = OFFLINE

IsLwt(topic, value) ==
    topic = StatusTopic /\ (value = ONLINE \/ value = OFFLINE)

NextMainNodeStatus(topic, value, current) ==
    IF IsLwt(topic, value) THEN value ELSE current

LwtEffects(topic, value, current, sockets) ==
    IF IsLwt(topic, value)
    THEN <<Emit("main_node_status", sockets, <<NextMainNodeStatus(topic, value, current)>>)>>
    ELSE <<>>

\* mutant: heartbeats are filtered before the emit instead of after it
FrontendEffectsSkipHeartbeat(topic, value, now, sockets) ==
    IF IsHeartbeat(value) THEN <<>>
    ELSE <<Emit("mqtt_message", sockets, <<topic, value, now>>)>>

\* mutant: the message reaches the frontend once per attached socket, as if
\* each connection had registered a message listener of its own
FrontendEffectsPerSocket(topic, value, now, sockets) ==
    [i \in 1..Cardinality(sockets) |-> Emit("mqtt_message", sockets, <<topic, value, now>>)]

FrontendEffects(topic, value, now, sockets) ==
    <<Emit("mqtt_message", sockets, <<topic, value, now>>)>>

\* mutant: the voltage is logged through the archive's seismic statement
BatteryEffectsIntoArchive(nodeName, value, now) ==
    LET voltageMatch == VoltageMatch(value)
    IN  IF voltageMatch # <<>> /\ ~IsStatusMsg(value)
        THEN <<Run("insertEqArchive", <<nodeName, voltageMatch[1], now>>)>>
        ELSE <<>>

BatteryEffects(nodeName, value, now) ==
    LET voltageMatch == VoltageMatch(value)
    IN  IF voltageMatch # <<>> /\ ~IsStatusMsg(value)
        THEN <<Run("insertBatt", <<nodeName, voltageMatch[1], value, now>>)>>
        ELSE <<>>

\* mutant: status payloads on a seismic topic are not logged
RoutingEffectsSkipStatus(topic, value, now) ==
    IF StartsWith(topic, FsaePrefix)
    THEN << Run("insertFsaeWeb", <<topic, value, now>>),
            Run("insertFsaeArchive", <<topic, value, now>>) >>
    ELSE IF StartsWith(topic, EqPrefix) /\ ~IsStatusMsg(value)
    THEN << Run("insertEqWeb", <<SplitPop(topic), value, now>>),
            Run("insertEqArchive", <<SplitPop(topic), value, now>>) >>
         \o BatteryEffects(SplitPop(topic), value, now)
    ELSE <<>>

RoutingEffects(topic, value, now) ==
    IF StartsWith(topic, FsaePrefix)
    THEN << Run("insertFsaeWeb", <<topic, value, now>>),
            Run("insertFsaeArchive", <<topic, value, now>>) >>
    ELSE IF StartsWith(topic, EqPrefix)
    THEN << Run("insertEqWeb", <<SplitPop(topic), value, now>>),
            Run("insertEqArchive", <<SplitPop(topic), value, now>>) >>
         \o BatteryEffects(SplitPop(topic), value, now)
    ELSE <<>>

\* mutant: the heartbeat test compares without lowering the case
PersistEffectsCaseSensitive(topic, value, now) ==
    IF Includes(value, HeartbeatMarker) THEN <<>> ELSE RoutingEffects(topic, value, now)

PersistEffects(topic, value, now) ==
    IF IsHeartbeat(value) THEN <<>> ELSE RoutingEffects(topic, value, now)

\* mutant: the inserts are issued before the emit
MessageEffectsPersistFirst(topic, value, now, current, sockets) ==
    LwtEffects(topic, value, current, sockets)
    \o PersistEffects(topic, value, now)
    \o FrontendEffects(topic, value, now, sockets)

MessageEffects(topic, value, now, current, sockets) ==
    LwtEffects(topic, value, current, sockets)
    \o FrontendEffects(topic, value, now, sockets)
    \o PersistEffects(topic, value, now)

OnMessage(topic, value) ==
    /\ alive /\ connected /\ Delivered(topic)
    /\ clock < MaxMsgs
    /\ LET now == clock + 1
           effects == MessageEffects(topic, value, now, mainNodeStatus, attached)
           shown == EffectsOf(effects, "emit", "mqtt_message")
       IN  /\ clock' = now
           /\ mainNodeStatus' = NextMainNodeStatus(topic, value, mainNodeStatus)
           /\ stq' = Dispatch(stq, effects)
           /\ handled' = Append(handled, [topic |-> topic, value |-> value])
           /\ broadcasts' = broadcasts \cup {shown[i].args : i \in 1..Len(shown)}
           /\ step' = Step("message", <<topic, value, now>>, effects)
    /\ fanout' = Sent(fanout, step'.effects, {})
    /\ UNCHANGED <<alive, brokerStatus, connected, subscriptions, attached, dbq, tables,
                   sqliteSeq, numClears, lastError>>

\* ------------------------------------------------ io.on('connection', ...)
SocketEmit(event, socket, args) ==
    [op |-> "socket.emit", name |-> event, to |-> {socket}, args |-> args]

\* mutant: the replay goes out with io.emit instead of socket.emit
ConnectionEffectsToAll(socket, broker, node) ==
    << Emit("status_update", Sockets, <<broker>>),
       Emit("main_node_status", Sockets, <<node>>) >>

\* mutant: the replay sends the initial value instead of the cached one
ConnectionEffectsStale(socket, broker, node) ==
    << SocketEmit("status_update", socket, <<broker>>),
       SocketEmit("main_node_status", socket, <<InitialMainNodeStatus>>) >>

\* mutant: the replay is sent twice
ConnectionEffectsTwice(socket, broker, node) ==
    << SocketEmit("status_update", socket, <<broker>>),
       SocketEmit("main_node_status", socket, <<node>>),
       SocketEmit("status_update", socket, <<broker>>),
       SocketEmit("main_node_status", socket, <<node>>) >>

ConnectionEffects(socket, broker, node) ==
    << SocketEmit("status_update", socket, <<broker>>),
       SocketEmit("main_node_status", socket, <<node>>) >>

OnConnection(socket) ==
    /\ alive /\ socket \notin attached
    /\ attached' = attached \cup {socket}
    /\ step' = Step("connection", <<socket>>,
                    ConnectionEffects(socket, brokerStatus, mainNodeStatus))
    /\ fanout' = Sent(fanout, step'.effects, {socket})
    /\ UNCHANGED <<alive, brokerStatus, mainNodeStatus, connected, subscriptions, clock, stq,
                   dbq, tables, sqliteSeq, numClears, handled, broadcasts, lastError>>

\* a browser goes away: socket.io drops its socket from the server's set;
\* the program registers no 'disconnect' handler
SocketDisconnect(socket) ==
    /\ alive /\ socket \in attached
    /\ attached' = attached \ {socket}
    /\ step' = NoHandler
    /\ fanout' = Left(fanout, socket)
    /\ UNCHANGED <<alive, brokerStatus, mainNodeStatus, connected, subscriptions, clock, stq,
                   dbq, tables, sqliteSeq, numClears, handled, broadcasts, lastError>>

\* ------------------------------------------- app.delete('/api/history', ...)
\* mutant: only a key that is present and wrong is refused
AuthorizedAllowMissing(clientKey) == ~(clientKey # "" /\ clientKey # AdminKey)

Authorized(clientKey) == ~(clientKey = "" \/ clientKey # AdminKey)

\* mutant: the clear is extended to the archive's generic table
DeleteHistoryEffectsWithArchive(clientKey) ==
    IF ~Authorized(clientKey)
    THEN <<Respond("403", "Unauthorized")>>
    ELSE << DbRun("dbWeb", "DELETE", {"web.messages"}, FALSE),
            DbRun("dbWeb", "DELETE", {"web.earthquake_logs"}, FALSE),
            DbRun("dbWeb", "RESET", {"web.messages", "web.earthquake_logs"}, FALSE),
            DbRun("dbWeb", "VACUUM", {}, FALSE),
            DbRun("dbArchive", "DELETE", {"archive.messages"}, FALSE),
            DbRun("dbWeb_batt", "DELETE", {"batt.battery_logs"}, FALSE),
            DbRun("dbWeb_batt", "RESET", {"batt.battery_logs"}, FALSE),
            DbRun("dbWeb_batt", "VACUUM", {}, TRUE) >>

DeleteHistoryEffects(clientKey) ==
    IF ~Authorized(clientKey)
    THEN <<Respond("403", "Unauthorized")>>
    ELSE << DbRun("dbWeb", "DELETE", {"web.messages"}, FALSE),
            DbRun("dbWeb", "DELETE", {"web.earthquake_logs"}, FALSE),
            DbRun("dbWeb", "RESET", {"web.messages", "web.earthquake_logs"}, FALSE),
            DbRun("dbWeb", "VACUUM", {}, FALSE),
            DbRun("dbWeb_batt", "DELETE", {"batt.battery_logs"}, FALSE),
            DbRun("dbWeb_batt", "RESET", {"batt.battery_logs"}, FALSE),
            DbRun("dbWeb_batt", "VACUUM", {}, TRUE) >>

OnDeleteHistory(clientKey) ==
    /\ alive /\ numClears < MaxClears
    /\ numClears' = numClears + 1
    /\ LET effects == DeleteHistoryEffects(clientKey)
       IN  /\ dbq' = DispatchDb(dbq, effects)
           /\ step' = Step("delete", <<clientKey>>, effects)
    /\ UNCHANGED <<fanout, alive, brokerStatus, mainNodeStatus, connected, subscriptions, attached,
                   clock, stq, tables, sqliteSeq, handled, broadcasts, lastError>>

\* the callback of the battery store's VACUUM
VacuumCallbackEffects(sockets) ==
    << Emit("history_cleared", sockets, <<>>),
       Respond("200", "History cleared and IDs reset") >>

\* ----------------------------------------------------- the SQLite engine
\* the oldest serialized db.run of a database executes
DbStep(db) ==
    /\ alive /\ dbq[db] # <<>>
    /\ LET sql == Head(dbq[db])[1]
           hit == Head(dbq[db])[2]
           cb == Head(dbq[db])[3]
       IN  /\ dbq' = [dbq EXCEPT ![db] = Tail(@)]
           /\ tables' = [t \in Tables |->
                            IF sql = "DELETE" /\ t \in hit THEN <<>> ELSE tables[t]]
           /\ sqliteSeq' = [t \in Tables |->
                            IF sql = "RESET" /\ t \in hit THEN 0 ELSE sqliteSeq[t]]
           /\ step' = IF cb THEN Step("vacuumed", <<>>, VacuumCallbackEffects(attached))
                      ELSE NoHandler
    /\ fanout' = Sent(fanout, step'.effects, {})
    /\ UNCHANGED <<alive, brokerStatus, mainNodeStatus, connected, subscriptions, attached,
                   clock, stq, numClears, handled, broadcasts, lastError>>

\* the oldest pending run of a prepared statement executes and inserts its row
InsertDone(stmt) ==
    /\ alive /\ stq[stmt] # <<>>
    /\ LET t == StmtTable(stmt)
           id == NextId(tables[t], sqliteSeq[t])
       IN  /\ tables' = [tables EXCEPT ![t] = Append(@, MakeRow(stmt, id, Head(stq[stmt])))]
           /\ sqliteSeq' = [sqliteSeq EXCEPT ![t] = id]
    /\ stq' = [stq EXCEPT ![stmt] = Tail(@)]
    /\ step' = NoHandler
    /\ UNCHANGED <<fanout, alive, brokerStatus, mainNodeStatus, connected, subscriptions, attached,
                   clock, dbq, numClears, handled, broadcasts, lastError>>

\* the oldest pending run of a prepared statement fails (disk full, database
\* locked past the busy timeout): run() was given no callback, so the
\* statement emits 'error', nothing listens for it, and the process ends
InsertFail(stmt) ==
    /\ alive /\ stq[stmt] # <<>>
    /\ stq' = [stq EXCEPT ![stmt] = Tail(@)]
    /\ lastError' = <<stmt, Head(stq[stmt])>>
    /\ alive' = FALSE
    /\ step' = NoHandler
    /\ UNCHANGED <<fanout, brokerStatus, mainNodeStatus, connected, subscriptions, attached, clock,
                   dbq, tables, sqliteSeq, numClears, handled, broadcasts>>

Next ==
    \/ OnConnect
    \/ TransportClose
    \/ \E m \in Inbound : OnMessage(m[1], m[2])
    \/ \E socket \in Sockets : OnConnection(socket)
    \/ \E socket \in Sockets : SocketDisconnect(socket)
    \/ \E clientKey \in Keys : OnDeleteHistory(clientKey)
    \/ \E db \in DBs : DbStep(db)
    \/ \E stmt \in Stmts : InsertDone(stmt)
    \/ \E stmt \in Stmts : InsertFail(stmt)

Spec == Init /\ [][Next]_vars

\* the same program when no DELETE /api/history request is made
NextIngest ==
    \/ OnConnect
    \/ TransportClose
    \/ \E m \in Inbound : OnMessage(m[1], m[2])
    \/ \E socket \in Sockets : OnConnection(socket)
    \/ \E socket \in Sockets : SocketDisconnect(socket)
    \/ \E stmt \in Stmts : InsertDone(stmt)
    \/ \E stmt \in Stmts : InsertFail(stmt)

SpecIngest == Init /\ [][NextIngest]_vars

\* the message handler on seismic topics over the voltage payloads
NextClassify ==
    \/ OnConnect
    \/ \E value \in VoltagePayloads : OnMessage(NodeTopic, value)
    \/ \E stmt \in Stmts : InsertDone(stmt)

SpecClassify == Init /\ [][NextClassify]_vars

\* sockets coming and going while the broker connection cycles and
\* messages arrive, each socket attaching at most MaxAttach times
NextFanout ==
    \/ OnConnect
    \/ TransportClose
    \/ \E m \in Inbound : OnMessage(m[1], m[2])
    \/ \E socket \in Sockets : fanout.attaches[socket] < MaxAttach /\ OnConnection(socket)
    \/ \E socket \in Sockets : SocketDisconnect(socket)

SpecFanout == InitFanout /\ [][NextFanout]_vars

\* ==================================================================
\* Properties
\* ==================================================================
Sentinels == {ONLINE, OFFLINE}

HasMarker(value) == Includes(ToLowerCase(value), HeartbeatMarker)

Seismic(topic) == StartsWith(topic, EqPrefix)

\* the timestamp a pending or failed run carries: its last parameter
StampOf(args) == args[Len(args)]

RowsAt(t, i) == Cardinality({k \in 1..Len(tables[t]) : tables[t][k].timestamp = i})

PendingAt(stmt, i) == Cardinality({k \in 1..Len(stq[stmt]) : StampOf(stq[stmt][k]) = i})

FailedAt(stmt, i) ==
    IF lastError # <<>> /\ lastError[1] = stmt /\ StampOf(lastError[2]) = i THEN 1 ELSE 0

\* the inserts of message i through a statement, whatever became of them
IssuedAt(stmt, i) == RowsAt(StmtTable(stmt), i) + PendingAt(stmt, i) + FailedAt(stmt, i)

MessageStep == step.handler = "message"

StepTopic == step.args[1]

StepValue == step.args[2]

Broadcast(event) == EffectsOf(step.effects, "emit", event)

Runs == LET IsRun(e) == e.op = "run" IN SelectSeq(step.effects, IsRun)

\* indices of the sentinel messages handled so far
SentinelsSeen ==
    {i \in 1..Len(handled) : handled[i].topic = StatusTopic /\ handled[i].value \in Sentinels}

LastSentinel ==
    handled[CHOOSE i \in SentinelsSeen : \A j \in SentinelsSeen : j <= i].value

\* C1: a message whose payload contains 'main node:' in any letter case, on
\* any topic, leaves no row, no pending and no failed insert in any store,
\* and is still broadcast as an mqtt_message event to every attached socket.
C1_HeartbeatNotPersisted ==
    /\ \A i \in 1..Len(handled) :
          HasMarker(handled[i].value) =>
             /\ \A s \in Stmts : IssuedAt(s, i) = 0
             /\ <<handled[i].topic, handled[i].value, i>> \in broadcasts
    /\ (MessageStep /\ HasMarker(StepValue)) =>
          /\ Runs = <<>>
          /\ Broadcast("mqtt_message") = <<Emit("mqtt_message", attached, step.args)>>

C1_Witness ==
    /\ MessageStep /\ StepValue = Heartbeat /\ StepTopic = NodeTopic
    /\ attached = Sockets
    /\ clock = 2 /\ \E t \in Tables : tables[t] # <<>>

\* C2 (as claimed): every message on a topic under 'home/earthquake/' has
\* exactly one seismic insert into the live table and one into the archive.
C2_EverySeismicMessagePersisted ==
    \A i \in 1..Len(handled) :
       Seismic(handled[i].topic) =>
          IssuedAt("insertEqWeb", i) = 1 /\ IssuedAt("insertEqArchive", i) = 1

\* C2 (amended): every message on a topic under 'home/earthquake/' whose
\* payload does not contain the heartbeat marker has exactly one seismic
\* insert issued into the live table and one into the archive table, each
\* writing exactly one row when it completes, whether or not a battery
\* insert is issued too and also for the payloads ONLINE and OFFLINE.
C2_OneSeismicRecordPerMessage ==
    /\ \A i \in 1..Len(handled) :
          (Seismic(handled[i].topic) /\ ~HasMarker(handled[i].value)) =>
             /\ IssuedAt("insertEqWeb", i) = 1
             /\ IssuedAt("insertEqArchive", i) = 1
             /\ (alive /\ stq["insertEqWeb"] = <<>>) => RowsAt("web.earthquake_logs", i) = 1
             /\ (alive /\ stq["insertEqArchive"] = <<>>) =>
                   RowsAt("archive.earthquake_logs", i) = 1
    /\ (MessageStep /\ Seismic(StepTopic) /\ ~HasMarker(StepValue)) =>
          /\ Len(EffectsOf(step.effects, "run", "insertEqWeb")) = 1
          /\ Len(EffectsOf(step.effects, "run", "insertEqArchive")) = 1

C2_Witness ==
    /\ alive /\ \A s \in Stmts : stq[s] = <<>>
    /\ handled = << [topic |-> NodeTopic, value |-> ONLINE],
                    [topic |-> NodeTopic, value |-> Reading] >>
    /\ Len(tables["archive.earthquake_logs"]) = 2
    /\ Len(tables["web.earthquake_logs"]) = 2
    /\ Len(tables["batt.battery_logs"]) = 1

\* C3: once 'home/earthquake/status' has carried ONLINE or OFFLINE, the
\* cached status is the payload of the latest such message; that message was
\* broadcast as a main_node_status event to every attached socket; and a
\* socket attaching later is replayed that same status.
C3_SentinelCachedAndReplayed ==
    /\ SentinelsSeen # {} => mainNodeStatus = LastSentinel
    /\ (MessageStep /\ StepTopic = StatusTopic /\ StepValue \in Sentinels) =>
          Broadcast("main_node_status")
             = <<Emit("main_node_status", attached, <<StepValue>>)>>
    /\ (step.handler = "connection" /\ SentinelsSeen # {}) =>
          EffectsOf(step.effects, "socket.emit", "main_node_status")
             = <<SocketEmit("main_node_status", step.args[1], <<LastSentinel>>)>>

C3_Witness ==
    /\ step.handler = "connection"
    /\ handled = <<[topic |-> StatusTopic, value |-> ONLINE]>>
    /\ ~connected
    /\ attached = Sockets

\* C4: every inbound message is emitted as one mqtt_message event carrying
\* its topic, payload and timestamp to every attached socket, whatever is
\* persisted of it; and every row of every table carries the timestamp,
\* payload and topic (or final topic segment) of a message that was emitted.
C4_BroadcastSupersetOfPersisted ==
    /\ \A i \in 1..Len(handled) : <<handled[i].topic, handled[i].value, i>> \in broadcasts
    /\ MessageStep =>
          Broadcast("mqtt_message") = <<Emit("mqtt_message", attached, step.args)>>
    /\ \A t \in {"web.messages", "archive.messages"} : \A k \in 1..Len(tables[t]) :
          <<tables[t][k].topic, tables[t][k].value, tables[t][k].timestamp>> \in broadcasts
    /\ \A t \in {"web.earthquake_logs", "archive.earthquake_logs"} :
          \A k \in 1..Len(tables[t]) : \E b \in broadcasts :
             /\ b[3] = tables[t][k].timestamp
             /\ b[2] = tables[t][k].magnitude
             /\ SplitPop(b[1]) = tables[t][k].node_id
    /\ \A k \in 1..Len(tables["batt.battery_logs"]) : \E b \in broadcasts :
          /\ b[3] = tables["batt.battery_logs"][k].timestamp
          /\ b[2] = tables["batt.battery_logs"][k].raw_message
          /\ SplitPop(b[1]) = tables["batt.battery_logs"][k].node_id

C4_Witness ==
    /\ handled = << [topic |-> BareTopic, value |-> Reading],
                    [topic |-> NodeTopic, value |-> Reading] >>
    /\ Cardinality(broadcasts) = 2
    /\ Len(tables["batt.battery_logs"]) = 1
    /\ Len(tables["web.earthquake_logs"]) = 1
    /\ \A k \in 1..Len(tables["web.earthquake_logs"]) :
          tables["web.earthquake_logs"][k].timestamp = 2

\* C5: in the handling of a message the mqtt_message emit comes before every
\* statement run, so a message whose insert failed has been broadcast.
C5_BroadcastBeforePersist ==
    /\ MessageStep =>
          \A j \in 1..Len(step.effects) :
             step.effects[j].op = "run" =>
                \E i \in 1..(j - 1) :
                   step.effects[i] = Emit("mqtt_message", attached, step.args)
    /\ lastError # <<>> =>
          \E b \in broadcasts : b[3] = StampOf(lastError[2])

C5_Witness ==
    /\ ~alive /\ lastError # <<>> /\ StampOf(lastError[2]) = 1
    /\ \A t \in Tables : RowsAt(t, 1) = 0
    /\ \E b \in broadcasts : b[3] = 1 /\ b[1] = NodeTopic /\ b[2] = Reading
    /\ attached # {}

\* C6 (as claimed): a socket attaching before any sentinel has arrived finds
\* the cached status neither ONLINE nor OFFLINE and is replayed that value.
C6_StartsUnknown ==
    (SentinelsSeen = {} /\ step.handler = "connection") =>
       /\ mainNodeStatus \notin Sentinels
       /\ \A k \in 1..Len(step.effects) :
             step.effects[k].name = "main_node_status" =>
                step.effects[k].args[1] \notin Sentinels

\* C6 (amended): the cached status starts as OFFLINE; a socket attaching
\* before any sentinel has arrived on the status topic is replayed OFFLINE.
C6_StartsOffline ==
    SentinelsSeen = {} =>
       /\ mainNodeStatus = OFFLINE
       /\ step.handler = "connection" =>
             EffectsOf(step.effects, "socket.emit", "main_node_status")
                = <<SocketEmit("main_node_status", step.args[1], <<OFFLINE>>)>>

C6_Witness ==
    /\ step.handler = "connection"
    /\ handled = << [topic |-> NodeTopic, value |-> ONLINE],
                    [topic |-> StatusTopic, value |-> LowerOnline] >>

\* C7: the cached status changes, and a main_node_status broadcast goes
\* out, only in the handling of a message on exactly 'home/earthquake/status'
\* with payload exactly ONLINE or OFFLINE; every other step leaves the cached
\* status as it was and broadcasts no main_node_status event.
C7_StatusChangesOnlyOnSentinel ==
    [][ (\/ mainNodeStatus' # mainNodeStatus
         \/ EffectsOf(step'.effects, "emit", "main_node_status") # <<>>)
        => /\ step'.handler = "message"
           /\ step'.args[1] = StatusTopic
           /\ step'.args[2] \in Sentinels
           /\ mainNodeStatus' = step'.args[2] ]_vars

C7_Witness ==
    /\ handled = << [topic |-> NodeTopic, value |-> ONLINE],
                    [topic |-> StatusTopic, value |-> LowerOnline] >>
    /\ mainNodeStatus = OFFLINE
    /\ numClears = 1 /\ \A d \in DBs : dbq[d] = <<>>
    /\ step.handler = "vacuumed"
    /\ attached = Sockets
    /\ connected

\* C8 (as claimed): while the transport is down brokerStatus is
\* Disconnected, and a socket attaching then is replayed Disconnected.
C8_DisconnectFlipsStatus ==
    ~connected =>
       /\ brokerStatus = Disconnected
       /\ step.handler = "connection" =>
             EffectsOf(step.effects, "socket.emit", "status_update")
                = <<SocketEmit("status_update", step.args[1], <<Disconnected>>)>>

\* C9: a connect event, a reconnect included, leaves brokerStatus ONLINE,
\* issues the subscriptions to 'fsae/#' and 'home/earthquake/#' and broadcasts
\* status_update ONLINE to every attached socket; while connected every
\* inbound topic is delivered again.
C9_ConnectResubscribes ==
    /\ step.handler = "connect" =>
          /\ brokerStatus = ONLINE
          /\ EffectsOf(step.effects, "subscribe", "mqttClient")
                = <<Subscribe(<<FsaeFilter, EqFilter>>)>>
          /\ Broadcast("status_update") = <<Emit("status_update", attached, <<ONLINE>>)>>
    /\ connected =>
          /\ subscriptions = {FsaeFilter, EqFilter}
          /\ \A m \in Inbound : Delivered(m[1])

C9_Witness ==
    /\ step.handler = "connect"
    /\ clock >= 1
    /\ attached = Sockets

\* C10: an attach sends exactly two events, status_update with the cached
\* brokerStatus and main_node_status with the cached mainNodeStatus, both to
\* the attaching socket alone, and no mqtt_message event.
C10_AttachReplaysTwoToNewcomer ==
    step.handler = "connection" =>
       /\ Len(step.effects) = 2
       /\ \A k \in 1..Len(step.effects) :
             /\ step.effects[k].op = "socket.emit"
             /\ step.effects[k].to = {step.args[1]}
             /\ step.effects[k].name # "mqtt_message"
       /\ step.args[1] \in attached
       /\ \E k \in 1..2 : /\ step.effects[k].name = "status_update"
                          /\ step.effects[k].args = <<brokerStatus>>
       /\ \E k \in 1..2 : /\ step.effects[k].name = "main_node_status"
                          /\ step.effects[k].args = <<mainNodeStatus>>

C10_Witness ==
    /\ step.handler = "connection"
    /\ attached = Sockets
    /\ broadcasts # {}
    /\ mainNodeStatus = ONLINE

\* s[a..b] is digits, a dot, digits
DecimalAt(s, a, b) ==
    \E dot \in (a + 1)..(b - 1) :
       /\ s[dot] = "."
       /\ \A k \in a..b : k # dot => s[k] \in Digits

\* the decimal s[a..b] is followed by V or v, starts the string or follows a
\* comma, and its unit ends the string or is followed by a comma
VoltageFieldAt(s, a, b) ==
    /\ DecimalAt(s, a, b)
    /\ b + 1 <= Len(s) /\ s[b + 1] \in {"V", "v"}
    /\ (a = 1 \/ s[a - 1] = ",")
    /\ (b + 1 = Len(s) \/ s[b + 2] = ",")

VoltageFields(s) ==
    {f \in (1..Len(s)) \X (1..Len(s)) : f[1] < f[2] /\ VoltageFieldAt(s, f[1], f[2])}

FirstVoltage(s) ==
    LET f == CHOOSE x \in VoltageFields(s) : \A y \in VoltageFields(s) : x[1] <= y[1]
    IN  SubSeq(s, f[1], f[2])

WantsBattery(value) ==
    /\ VoltageFields(value) # {}
    /\ value \notin Sentinels
    /\ ~Includes(ToLowerCase(value), ConfirmedMarker)

\* C11: a non-heartbeat message on a seismic topic gets a battery insert if
\* and only if its payload holds a decimal immediately followed by V or v,
\* bounded by start-or-comma on the left and comma-or-end on the right, is
\* not exactly ONLINE or OFFLINE and does not contain 'confirmed' in any
\* case; the voltage stored is the decimal of the first such field.
C11_BatteryIffVoltageField ==
    /\ \A i \in 1..Len(handled) :
          (Seismic(handled[i].topic) /\ ~HasMarker(handled[i].value)) =>
             IssuedAt("insertBatt", i) = IF WantsBattery(handled[i].value) THEN 1 ELSE 0
    /\ \A k \in 1..Len(stq["insertBatt"]) :
          stq["insertBatt"][k][2] = FirstVoltage(stq["insertBatt"][k][3])
    /\ \A k \in 1..Len(tables["batt.battery_logs"]) :
          LET row == tables["batt.battery_logs"][k]
          IN  /\ row.raw_message = handled[row.timestamp].value
              /\ row.voltage = FirstVoltage(row.raw_message)
              /\ row.raw_message = TwelveFourOk => row.voltage = <<"1", "2", ".", "4">>

C11_Witness ==
    /\ \A s \in Stmts : stq[s] = <<>>
    /\ handled = << [topic |-> NodeTopic, value |-> ConfirmedField],
                    [topic |-> NodeTopic, value |-> TwelveFourOk] >>
    /\ Len(tables["batt.battery_logs"]) = 1
    /\ tables["batt.battery_logs"][1].voltage = <<"1", "2", ".", "4">>
    /\ Len(tables["web.earthquake_logs"]) = 2

GenericTables == {"web.messages", "archive.messages"}

SeismicTables == {"web.earthquake_logs", "archive.earthquake_logs"}

\* C12: rows are never cross-written. The generic tables hold only generic
\* rows of messages under 'fsae/'; the seismic tables hold only seismic rows
\* carrying the payload of a message under 'home/earthquake/', one per
\* message; battery rows are in the battery table alone; a generic message
\* issues no seismic or battery insert and a seismic one no generic insert.
C12_NoCrossWrites ==
    /\ \A t \in GenericTables : \A k \in 1..Len(tables[t]) :
          /\ DOMAIN tables[t][k] = {"id", "topic", "value", "timestamp"}
          /\ StartsWith(handled[tables[t][k].timestamp].topic, FsaePrefix)
    /\ \A t \in SeismicTables : \A k \in 1..Len(tables[t]) :
          /\ DOMAIN tables[t][k] = {"id", "node_id", "magnitude", "timestamp"}
          /\ Seismic(handled[tables[t][k].timestamp].topic)
          /\ tables[t][k].magnitude = handled[tables[t][k].timestamp].value
          /\ RowsAt(t, tables[t][k].timestamp) = 1
    /\ \A k \in 1..Len(tables["batt.battery_logs"]) :
          /\ DOMAIN tables["batt.battery_logs"][k]
                = {"id", "node_id", "voltage", "raw_message", "timestamp"}
          /\ Seismic(handled[tables["batt.battery_logs"][k].timestamp].topic)
    /\ \A i \in 1..Len(handled) :
          /\ StartsWith(handled[i].topic, FsaePrefix) =>
                \A s \in {"insertEqWeb", "insertEqArchive", "insertBatt"} : IssuedAt(s, i) = 0
          /\ Seismic(handled[i].topic) =>
                \A s \in {"insertFsaeWeb", "insertFsaeArchive"} : IssuedAt(s, i) = 0
    /\ \A k \in 1..Len(Runs) :
          Len(Runs[k].args) = IF Runs[k].name = "insertBatt" THEN 4 ELSE 3

C12_Witness ==
    /\ alive /\ \A s \in Stmts : stq[s] = <<>>
    /\ handled = << [topic |-> GenericTopic, value |-> Reading],
                    [topic |-> NodeTopic, value |-> Reading] >>
    /\ \A t \in GenericTables \cup SeismicTables : Len(tables[t]) = 1
    /\ Len(tables["batt.battery_logs"]) = 1

\* the live statement and the archive statement of one record
StorePairs == { <<"insertFsaeWeb", "insertFsaeArchive">>, <<"insertEqWeb", "insertEqArchive">> }

\* the insert of message i through a statement is not lost: it has run, or it
\* is queued in a process that is still running
NotPrevented(stmt, i) ==
    IssuedAt(stmt, i) = 1 /\ (PendingAt(stmt, i) = 1 => alive)

\* C13 (as claimed): a generic or seismic record is inserted into the live
\* and the archive store, and a failure of either insert neither prevents nor
\* undoes the other.
C13_IndependentFailures ==
    \A i \in 1..Len(handled) : \A p \in StorePairs :
       /\ IssuedAt(p[1], i) = IssuedAt(p[2], i)
       /\ FailedAt(p[1], i) = 1 => NotPrevented(p[2], i)
       /\ FailedAt(p[2], i) = 1 => NotPrevented(p[1], i)

\* C14 (as claimed): a failed insert does not end the process; after it the
\* next inbound message can still be handled.
C14_FailureNotFatal ==
    lastError # <<>> =>
       /\ alive
       /\ (connected /\ clock < MaxMsgs) => ENABLED (\E m \in Inbound : OnMessage(m[1], m[2]))

\* C19 (as claimed): a message is handled in one step that carries only its
\* own emits and runs; the completion or failure of a statement run handles
\* no message, emits nothing, leaves brokerStatus and mainNodeStatus as they
\* were and leaves the process able to take the next message.
C19_OneAtATime ==
    [][ /\ clock' # clock =>
              /\ clock' = clock + 1
              /\ step'.handler = "message"
              /\ \A k \in 1..Len(step'.effects) :
                    /\ step'.effects[k].op = "run" => StampOf(step'.effects[k].args) = clock'
                    /\ step'.effects[k].name = "mqtt_message" =>
                          step'.effects[k].args[3] = clock'
        /\ (\E s \in Stmts : Len(stq'[s]) < Len(stq[s])) =>
              /\ clock' = clock /\ handled' = handled /\ broadcasts' = broadcasts
              /\ mainNodeStatus' = mainNodeStatus /\ brokerStatus' = brokerStatus
              /\ step'.effects = <<>>
              /\ alive' ]_vars

ArchiveTables == {"archive.messages", "archive.earthquake_logs"}

LiveTables == {"web.messages", "web.earthquake_logs", "batt.battery_logs"}

IsPrefix(a, b) == Len(a) <= Len(b) /\ SubSeq(b, 1, Len(a)) = a

\* C15: the archive is append-only: every step keeps each archive table's
\* rows as a prefix of its rows afterwards, no db.run is ever issued against
\* the archive database or an archive table, and none is ever queued.
C15_ArchiveAppendOnly ==
    [][ /\ \A t \in ArchiveTables : IsPrefix(tables[t], tables'[t])
        /\ dbq'["dbArchive"] = <<>>
        /\ \A k \in 1..Len(step'.effects) :
              step'.effects[k].op = "db.run" =>
                 /\ step'.effects[k].name # "dbArchive"
                 /\ step'.effects[k].args[2] \cap ArchiveTables = {} ]_vars

C15_Witness ==
    /\ alive /\ numClears = 1
    /\ \A d \in DBs : dbq[d] = <<>>
    /\ \A s \in Stmts : stq[s] = <<>>
    /\ handled = << [topic |-> GenericTopic, value |-> Reading],
                    [topic |-> NodeTopic, value |-> Reading] >>
    /\ \A t \in LiveTables : tables[t] = <<>>
    /\ \A t \in ArchiveTables : Len(tables[t]) = 1

\* the step executes a queued DELETE covering table t
DeleteExecutes(t) ==
    \E d \in DBs :
       /\ dbq[d] # <<>> /\ dbq'[d] = Tail(dbq[d])
       /\ Head(dbq[d])[1] = "DELETE" /\ t \in Head(dbq[d])[2]

\* the step executes a queued reset of table t's sqlite_sequence entry
ResetExecutes(t) ==
    \E d \in DBs :
       /\ dbq[d] # <<>> /\ dbq'[d] = Tail(dbq[d])
       /\ Head(dbq[d])[1] = "RESET" /\ t \in Head(dbq[d])[2]

\* among the db.run calls of the step, a DELETE of t followed by a reset of t
ClearsAndResets(effects, t) ==
    \E k, l \in 1..Len(effects) :
       /\ k < l
       /\ effects[k].op = "db.run" /\ effects[l].op = "db.run"
       /\ effects[k].name = effects[l].name
       /\ effects[k].args[1] = "DELETE" /\ t \in effects[k].args[2]
       /\ effects[l].args[1] = "RESET" /\ t \in effects[l].args[2]

\* C16: the rows of the live and battery tables carry strictly increasing
\* ids; a step changes such a table only by appending one row with a larger
\* id or by emptying it through a queued DELETE; DELETEs are queued only by a
\* /api/history request carrying the admin key, which queues a sequence reset
\* behind each; handling a message changes no table; a request with a missing
\* or wrong key answers 403, emits nothing and leaves tables, sequences and
\* queues as they were.
C16_LiveRowsClearedOnlyByAdmin ==
    /\ [](\A t \in Tables : \A k, l \in 1..Len(tables[t]) :
             k < l => tables[t][k].id < tables[t][l].id)
    /\ [][ /\ \A t \in LiveTables :
                 /\ tables'[t] # tables[t] =>
                       \/ /\ Len(tables'[t]) = Len(tables[t]) + 1
                          /\ IsPrefix(tables[t], tables'[t])
                          /\ \A k \in 1..Len(tables[t]) :
                                tables[t][k].id < tables'[t][Len(tables'[t])].id
                       \/ tables'[t] = <<>> /\ DeleteExecutes(t)
                 /\ sqliteSeq'[t] < sqliteSeq[t] => sqliteSeq'[t] = 0 /\ ResetExecutes(t)
           /\ (\E d \in DBs : Len(dbq'[d]) > Len(dbq[d])) =>
                 /\ step'.handler = "delete" /\ step'.args = <<AdminKey>>
                 /\ \A t \in LiveTables : ClearsAndResets(step'.effects, t)
           /\ clock' # clock => tables' = tables /\ sqliteSeq' = sqliteSeq
           /\ (numClears' # numClears /\ step'.args # <<AdminKey>>) =>
                 /\ tables' = tables /\ sqliteSeq' = sqliteSeq
                 /\ dbq' = dbq /\ stq' = stq
                 /\ step'.effects = <<Respond("403", "Unauthorized")>> ]_vars

C16_Witness ==
    /\ alive /\ numClears = 1
    /\ \A d \in DBs : dbq[d] = <<>>
    /\ \A s \in Stmts : stq[s] = <<>>
    /\ handled = << [topic |-> NodeTopic, value |-> Reading],
                    [topic |-> NodeTopic, value |-> Reading] >>
    /\ Len(tables["web.earthquake_logs"]) = 1
    /\ tables["web.earthquake_logs"][1].id = 1
    /\ tables["web.earthquake_logs"][1].timestamp = 2
    /\ Len(tables["archive.earthquake_logs"]) = 2

\* C20 (as claimed): when the VACUUM callback emits 'history_cleared' and
\* answers 'History cleared and IDs reset', the live store's DELETEs and
\* sequence reset of that request have executed: the live store's queue
\* holds no more requests' worth of statements than the battery store's.
C20_ClearedBeforeAnnounced ==
    step.handler = "vacuumed" =>
       /\ Broadcast("history_cleared") # <<>>
       /\ Len(dbq["dbWeb"]) * 3 <= Len(dbq["dbWeb_batt"]) * 4

\* ---------------------------------------------------------------- C17
\* the socket is attached for at least the second time, so it has detached
\* in between
Reattached(socket) == socket \in attached /\ fanout.attaches[socket] >= 2

BroadcastEvents == {"mqtt_message", "status_update", "main_node_status"}

\* how many io.emit calls of the last handler run reached the socket
TimesSent(socket, event) ==
    LET Hit(e) == e.op = "emit" /\ e.name = event /\ socket \in e.to
    IN  Len(SelectSeq(step.effects, Hit))

\* C17: a socket that attached, detached and attached again is sent each
\* broadcast of a handler run at most once, and no generic message (told
\* apart by its timestamp) is in what it received more than once.
C17_ReattachDoesNotDuplicate ==
    \A s \in Sockets :
        Reattached(s) =>
            /\ \A event \in BroadcastEvents : TimesSent(s, event) <= 1
            /\ LET box == fanout.inbox[s]
               IN  \A i, j \in DOMAIN box :
                      (box[i].name = "mqtt_message" /\ box[i] = box[j]) => i = j

\* a reattached socket, with a second socket attached at its side, has been
\* sent a generic message
C17_Witness ==
    \E s \in Sockets :
        /\ Reattached(s)
        /\ attached = Sockets
        /\ step.handler = "message"
        /\ TimesSent(s, "mqtt_message") = 1
        /\ \E i \in DOMAIN fanout.inbox[s] : fanout.inbox[s][i].name = "mqtt_message"

\* ---------------------------------------------------------------- C18
\* C18: what an attached socket has received since it attached starts with
\* the two replayed events, status_update then main_node_status, sent to it
\* alone, and everything after them is a broadcast: the replay goes out
\* once and no live event overtakes it.
C18_ReplayFirstAndOnce ==
    \A s \in attached :
        LET box == fanout.inbox[s]
        IN  /\ Len(box) >= 2
            /\ box[1].op = "socket.emit" /\ box[1].name = "status_update"
            /\ box[2].op = "socket.emit" /\ box[2].name = "main_node_status"
            /\ \A i \in 3..Len(box) : box[i].op = "emit"

\* a socket has received a live event behind its replay
C18_Witness ==
    \E s \in attached :
        LET box == fanout.inbox[s]
        IN  /\ Len(box) >= 3
            /\ box[1].op = "socket.emit"
            /\ box[3].op = "emit"
            /\ box[3].name \in BroadcastEvents

====
